---- MODULE Spec2Model ----
(***************************************************************************)
(* Event registration of Nebraska (backend/pkg/api/events.go):             *)
(* RegisterEvent, triggerEventConsequences and GetEvent, over a store of   *)
(* instances, groups, events and activity entries.                         *)
(*                                                                         *)
(* The store itself (instance, group, activity and event_type tables and   *)
(* the functions that read and write them) is not part of events.go; it    *)
(* is modelled from the specification and the comments of events.go.       *)
(***************************************************************************)
EXTENDS Integers, Sequences, FiniteSets, TLC

VARIABLES
    status,             \* instance -> UpdateStatus of its application binding
    updateInProgress,   \* instance -> Application.UpdateInProgress
    LastUpdateVersion,  \* instance -> Application.LastUpdateVersion
    rolloutInProgress,  \* group -> RolloutInProgress
    updatesEnabled,     \* group -> updates enabled (policy)
    events,             \* the event table, in insertion order
    activity,           \* the activity table, in insertion order
    now,                \* the store's clock (created_ts of the next insert)
    disableUpdatesOnFailedRollout, \* api.disableUpdatesOnFailedRollout
    ret,                \* what the last RegisterEvent call returned
    found,              \* what the last GetEvent call returned
    pc,                 \* instance -> where its concurrent call stands
    call                \* instance -> arguments and locals of that call

vars == <<status, updateInProgress, LastUpdateVersion, rolloutInProgress,
          updatesEnabled, events, activity, now,
          disableUpdatesOnFailedRollout, ret, found, pc, call>>

----------------------------------------------------------------------------
\* Bounds of the model.

\* RegisterEvent is called only while the event table holds fewer rows:
\* MaxEvents with every kind of call (Spec), MaxRolloutEvents in the runs of
\* one application's rollout (SpecRollout), MaxLogEvents in the runs of the
\* event log (SpecLog).
MaxEvents == 2
MaxRolloutEvents == 3
MaxLogEvents == 3
MaxCycleEvents == 3
\* The clock stops here.
MaxTime == 2

----------------------------------------------------------------------------
\* Protocol constants (events.go 11-45) and errors (events.go 47-73).

EventUpdateComplete == 3
EventUpdateDownloadStarted == 13
EventUpdateDownloadFinished == 14
EventUpdateInstalled == 800

ResultFailed == 0
ResultSuccess == 1
ResultSuccessReboot == 2

nil == "nil"
ErrInvalidInstance == "nebraska: invalid instance"
ErrInvalidApplicationOrGroup == "nebraska: invalid application or group"
ErrInvalidEventTypeOrResult == "nebraska: invalid event type or result"
ErrEventRegistrationFailed == "nebraska: event registration failed"
ErrNoUpdateInProgress == "nebraska: no update in progress"
ErrFlatcarEventIgnored == "nebraska: flatcar event ignored"
\* Errors of the store, which RegisterEvent logs and never returns.
ErrStore == "store error"

----------------------------------------------------------------------------
\* The store's contents that event registration never changes.

flatcarAppID == "flatcar"
otherAppID == "app"
Apps == {flatcarAppID, otherAppID}

\* g1 and g2 are groups of the same application; g3 has no instance.
Groups == {"gF", "g1", "g2", "g3"}
GroupApp(g) == IF g = "gF" THEN flatcarAppID ELSE otherAppID
GroupVersion(g) == "2.0.0"

Instances == {"f1", "i1", "i2", "i3"}
InstanceApp(i) == IF i = "f1" THEN flatcarAppID ELSE otherAppID
InstanceGroup(i) == CASE i = "f1" -> "gF"
                      [] i = "i3" -> "g2"
                      [] OTHER -> "g1"
Members(g) == {i \in Instances : InstanceGroup(i) = g}

InstanceStatusUndefined == "Undefined"
InstanceStatusUpdateGranted == "UpdateGranted"
InstanceStatusError == "Error"
InstanceStatusComplete == "Complete"
InstanceStatusInstalled == "Installed"
InstanceStatusDownloaded == "Downloaded"
InstanceStatusDownloading == "Downloading"
Statuses == {InstanceStatusUndefined, InstanceStatusUpdateGranted,
             InstanceStatusError, InstanceStatusComplete,
             InstanceStatusInstalled, InstanceStatusDownloaded,
             InstanceStatusDownloading}

activityRolloutFinished == "rollout finished"
activityRolloutFailed == "rollout failed"
activityInstanceUpdateFailed == "instance update failed"
activitySuccess == "success"
activityError == "error"

\* The event_type table: the (type, result) pairs Nebraska implements.
\* A row's position is its id.
EventTypeTable ==
    << <<EventUpdateComplete, ResultFailed>>,
       <<EventUpdateComplete, ResultSuccess>>,
       <<EventUpdateComplete, ResultSuccessReboot>>,
       <<EventUpdateDownloadStarted, ResultFailed>>,
       <<EventUpdateDownloadStarted, ResultSuccess>>,
       <<EventUpdateDownloadFinished, ResultFailed>>,
       <<EventUpdateDownloadFinished, ResultSuccess>>,
       <<EventUpdateInstalled, ResultFailed>>,
       <<EventUpdateInstalled, ResultSuccess>> >>

\* The store operations that may fail (a database error) during a call.
StoreOps == {"insert", "GetGroup", "updateInstanceStatus",
             "getGroupUpdatesStats", "setGroupRolloutInProgress",
             "disableUpdates", "newGroupActivityEntry",
             "newInstanceActivityEntry"}

----------------------------------------------------------------------------
\* The store as one value, and its operations.

Store == [status |-> status, uip |-> updateInProgress,
          version |-> LastUpdateVersion, rollout |-> rolloutInProgress,
          enabled |-> updatesEnabled, events |-> events,
          activity |-> activity, now |-> now,
          halt |-> disableUpdatesOnFailedRollout]

\* A step of a call: the store, the error of the step, the operations issued.
Step(s, err, ops) == [s |-> s, err |-> err, ops |-> ops]

validateApplicationAndGroup(appID, groupID) ==
    IF appID \in Apps /\ groupID \in Groups /\ GroupApp(groupID) = appID
    THEN [err |-> nil, appID |-> appID, groupID |-> groupID]
    ELSE [err |-> ErrInvalidApplicationOrGroup, appID |-> appID, groupID |-> groupID]

GetInstance(s, instanceID, appID) ==
    IF instanceID \in Instances
    THEN [err |-> nil,
          ID |-> instanceID,
          Application |-> [ApplicationID |-> InstanceApp(instanceID),
                           GroupID |-> InstanceGroup(instanceID),
                           Status |-> s.status[instanceID],
                           UpdateInProgress |-> s.uip[instanceID],
                           LastUpdateVersion |-> s.version[instanceID]]]
    ELSE [err |-> ErrStore]

GetGroup(s, groupID, F) ==
    IF "GetGroup" \in F \/ groupID \notin Groups
    THEN [err |-> ErrStore]
    ELSE [err |-> nil, ID |-> groupID, ApplicationID |-> GroupApp(groupID),
          Version |-> GroupVersion(groupID)]

\* Writing a status that ends or voids the update also clears
\* update_in_progress: "update_in_progress is only set to false for states
\* in which we will grant an update" (events.go 103-104), and an instance
\* with an update in progress "can't be in a Completed state" (113-114).
updateInstanceObjStatus(s, instanceID, newStatus, F) ==
    IF "updateInstanceStatus" \in F
    THEN Step(s, ErrStore, <<"updateInstanceStatus">>)
    ELSE Step([s EXCEPT !.status[instanceID] = newStatus,
                        !.uip[instanceID] =
                            IF newStatus \in {InstanceStatusComplete,
                                              InstanceStatusError,
                                              InstanceStatusUndefined}
                            THEN FALSE ELSE @],
              nil, <<"updateInstanceStatus">>)

updateInstanceStatus(s, instanceID, appID, newStatus, F) ==
    updateInstanceObjStatus(s, instanceID, newStatus, F)

\* The statistics of a group's rollout to its current version.
getGroupUpdatesStats(s, group, F) ==
    IF "getGroupUpdatesStats" \in F
    THEN [err |-> ErrStore]
    ELSE LET done == {i \in Members(group.ID) :
                         /\ ~s.uip[i]
                         /\ s.version[i] = group.Version}
         IN [err |-> nil,
             TotalInstances |-> Cardinality(Members(group.ID)),
             UpdatesToCurrentVersionAttempted |-> Cardinality(done),
             UpdatesToCurrentVersionSucceeded |->
                 Cardinality({i \in done : s.status[i] = InstanceStatusComplete})]

setGroupRolloutInProgress(s, groupID, inProgress, F) ==
    IF "setGroupRolloutInProgress" \in F
    THEN Step(s, ErrStore, <<"setGroupRolloutInProgress">>)
    ELSE Step([s EXCEPT !.rollout[groupID] = inProgress], nil,
              <<"setGroupRolloutInProgress">>)

disableUpdates(s, groupID, F) ==
    IF "disableUpdates" \in F
    THEN Step(s, ErrStore, <<"disableUpdates">>)
    ELSE Step([s EXCEPT !.enabled[groupID] = FALSE], nil, <<"disableUpdates">>)

newGroupActivityEntry(s, class, severity, version, appID, groupID, F) ==
    IF "newGroupActivityEntry" \in F
    THEN Step(s, ErrStore, <<"newGroupActivityEntry">>)
    ELSE Step([s EXCEPT !.activity = Append(@,
                  [class |-> class, severity |-> severity, version |-> version,
                   appID |-> appID, groupID |-> groupID, instanceID |-> ""])],
              nil, <<"newGroupActivityEntry">>)

newInstanceActivityEntry(s, class, severity, version, appID, groupID, instanceID, F) ==
    IF "newInstanceActivityEntry" \in F
    THEN Step(s, ErrStore, <<"newInstanceActivityEntry">>)
    ELSE Step([s EXCEPT !.activity = Append(@,
                  [class |-> class, severity |-> severity, version |-> version,
                   appID |-> appID, groupID |-> groupID, instanceID |-> instanceID])],
              nil, <<"newInstanceActivityEntry">>)

\* The query with the condition on the result left out.
EventTypeID_ByType(etype, eresult) ==
    LET rows == {k \in 1..Len(EventTypeTable) : EventTypeTable[k][1] = etype}
    IN IF rows = {} THEN 0 ELSE CHOOSE k \in rows : TRUE

\* SELECT id FROM event_type WHERE type = etype AND result = eresult:
\* the id of the row, or 0 when there is none (Scan fails).
EventTypeID(etype, eresult) ==
    LET rows == {k \in 1..Len(EventTypeTable) : EventTypeTable[k] = <<etype, eresult>>}
    IN IF rows = {} THEN 0 ELSE CHOOSE k \in rows : TRUE

\* The insert with the columns previous_version and error_code exchanged.
InsertEvent_ColumnsSwapped(s, eventTypeID, instanceID, appID, previousVersion, errorCode, F) ==
    IF "insert" \in F
    THEN Step(s, ErrStore, <<"insert">>)
    ELSE Step([s EXCEPT !.events = Append(@,
                  [event_type_id |-> eventTypeID, instance_id |-> instanceID,
                   application_id |-> appID, previous_version |-> errorCode,
                   error_code |-> previousVersion, created_ts |-> s.now])],
              nil, <<"insert">>)

\* INSERT INTO event (...): the row gets the store's time as created_ts.
InsertEvent(s, eventTypeID, instanceID, appID, previousVersion, errorCode, F) ==
    IF "insert" \in F
    THEN Step(s, ErrStore, <<"insert">>)
    ELSE Step([s EXCEPT !.events = Append(@,
                  [event_type_id |-> eventTypeID, instance_id |-> instanceID,
                   application_id |-> appID, previous_version |-> previousVersion,
                   error_code |-> errorCode, created_ts |-> s.now])],
              nil, <<"insert">>)

----------------------------------------------------------------------------
\* triggerEventConsequences (events.go 161-234).

\* The condition of events.go 169 without the exception for Flatcar.
IsUpdateComplete_AnySuccess(appID, etype, result) ==
    /\ etype = EventUpdateComplete
    /\ (result = ResultSuccessReboot \/ result = ResultSuccess)

\* events.go 169: the results that complete an update. Plain ResultSuccess
\* counts only when the application is not Flatcar.
IsUpdateComplete(appID, etype, result) ==
    /\ etype = EventUpdateComplete
    /\ \/ result = ResultSuccessReboot
       \/ (appID # flatcarAppID /\ result = ResultSuccess)

\* events.go 178
RolloutConverged(updatesStats) ==
    updatesStats.UpdatesToCurrentVersionSucceeded = updatesStats.TotalInstances

\* events.go 219
FirstAttemptFailed(updatesStats) ==
    updatesStats.UpdatesToCurrentVersionAttempted = 1

\* The halt of events.go 214 taken whatever the configuration.
HaltOnFailure_Always(s) == TRUE

\* events.go 214
HaltOnFailure(s) == s.halt

\* The entry of events.go 182 skipped when the write of line 179 fails.
FinishRollout_StopOnError(s, appID, groupID, lastUpdateVersion, F) ==
    LET r == setGroupRolloutInProgress(s, groupID, FALSE, F)
        a == newGroupActivityEntry(r.s, activityRolloutFinished, activitySuccess,
                                   lastUpdateVersion, appID, groupID, F)
    IN IF r.err # nil
       THEN Step(r.s, nil, r.ops)
       ELSE Step(a.s, nil, r.ops \o a.ops)

\* events.go 179-184: both writes are issued; their errors are logged.
FinishRollout(s, appID, groupID, lastUpdateVersion, F) ==
    LET r == setGroupRolloutInProgress(s, groupID, FALSE, F)
        a == newGroupActivityEntry(r.s, activityRolloutFinished, activitySuccess,
                                   lastUpdateVersion, appID, groupID, F)
    IN Step(a.s, nil, r.ops \o a.ops)

\* events.go 220-228
FailRollout(s, appID, groupID, lastUpdateVersion, F) ==
    LET d == disableUpdates(s, groupID, F)
        r == setGroupRolloutInProgress(d.s, groupID, FALSE, F)
        a == newGroupActivityEntry(r.s, activityRolloutFailed, activityError,
                                   lastUpdateVersion, appID, groupID, F)
    IN Step(a.s, nil, d.ops \o r.ops \o a.ops)

\* The statistics read before the status write instead of after it.
CompleteConsequences_StatsFirst(s, group, instanceID, appID, groupID, lastUpdateVersion, F) ==
    LET updatesStats == getGroupUpdatesStats(s, group, F)
        w == updateInstanceStatus(s, instanceID, appID, InstanceStatusComplete, F)
        ops == <<"getGroupUpdatesStats">> \o w.ops
    IN IF updatesStats.err # nil
       THEN Step(w.s, updatesStats.err, ops)
       ELSE IF RolloutConverged(updatesStats)
            THEN LET f == FinishRollout(w.s, appID, groupID, lastUpdateVersion, F)
                 IN Step(f.s, nil, ops \o f.ops)
            ELSE Step(w.s, nil, ops)

\* events.go 170-185: the body of the update-complete branch. An error of
\* the status write is logged; an error of the statistics is returned.
CompleteConsequences(s, group, instanceID, appID, groupID, lastUpdateVersion, F) ==
    LET w == updateInstanceStatus(s, instanceID, appID, InstanceStatusComplete, F)
        updatesStats == getGroupUpdatesStats(w.s, group, F)
        ops == w.ops \o <<"getGroupUpdatesStats">>
    IN IF updatesStats.err # nil
       THEN Step(w.s, updatesStats.err, ops)
       ELSE IF RolloutConverged(updatesStats)
            THEN LET f == FinishRollout(w.s, appID, groupID, lastUpdateVersion, F)
                 IN Step(f.s, nil, ops \o f.ops)
            ELSE Step(w.s, nil, ops)

\* The statuses of the two download events exchanged.
ProgressStatus_Swapped(etype, result) ==
    IF etype = EventUpdateDownloadStarted /\ result = ResultSuccess
    THEN InstanceStatusDownloaded
    ELSE IF etype = EventUpdateDownloadFinished /\ result = ResultSuccess
    THEN InstanceStatusDownloading
    ELSE IF etype = EventUpdateInstalled /\ result = ResultSuccess
    THEN InstanceStatusInstalled
    ELSE ""

\* events.go 188-204: the status a progress event sets, or "" for none.
ProgressStatus(etype, result) ==
    IF etype = EventUpdateDownloadStarted /\ result = ResultSuccess
    THEN InstanceStatusDownloading
    ELSE IF etype = EventUpdateDownloadFinished /\ result = ResultSuccess
    THEN InstanceStatusDownloaded
    ELSE IF etype = EventUpdateInstalled /\ result = ResultSuccess
    THEN InstanceStatusInstalled
    ELSE ""

\* events.go 188-204: the three branches exclude each other, so at most one
\* status write is issued; its error is logged.
ProgressConsequences(s, instanceID, appID, etype, result, F) ==
    IF ProgressStatus(etype, result) # ""
    THEN LET w == updateInstanceStatus(s, instanceID, appID,
                                       ProgressStatus(etype, result), F)
         IN Step(w.s, nil, w.ops)
    ELSE Step(s, nil, <<>>)

\* events.go 207-230: the body of the failure branch.
FailedConsequences(s, group, instanceID, appID, groupID, lastUpdateVersion, F) ==
    LET w == updateInstanceStatus(s, instanceID, appID, InstanceStatusError, F)
        a == newInstanceActivityEntry(w.s, activityInstanceUpdateFailed, activityError,
                                      lastUpdateVersion, appID, groupID, instanceID, F)
        ops == w.ops \o a.ops
    IN IF ~HaltOnFailure(s)
       THEN Step(a.s, nil, ops)
       ELSE LET updatesStats == getGroupUpdatesStats(a.s, group, F)
                ops2 == ops \o <<"getGroupUpdatesStats">>
            IN IF updatesStats.err # nil
               THEN Step(a.s, updatesStats.err, ops2)
               ELSE IF FirstAttemptFailed(updatesStats)
                    THEN LET f == FailRollout(a.s, appID, groupID, lastUpdateVersion, F)
                         IN Step(f.s, nil, ops2 \o f.ops)
                    ELSE Step(a.s, nil, ops2)

triggerEventConsequences(s, instanceID, appID, groupID, lastUpdateVersion, etype, result, F) ==
    LET group == GetGroup(s, groupID, F)
        c == IF IsUpdateComplete(appID, etype, result)
             THEN CompleteConsequences(s, group, instanceID, appID, groupID,
                                       lastUpdateVersion, F)
             ELSE Step(s, nil, <<>>)
        p == ProgressConsequences(c.s, instanceID, appID, etype, result, F)
        f == IF result = ResultFailed
             THEN FailedConsequences(p.s, group, instanceID, appID, groupID,
                                     lastUpdateVersion, F)
             ELSE Step(p.s, nil, <<>>)
    IN IF group.err # nil
       THEN Step(s, group.err, <<"GetGroup">>)
       ELSE IF c.err # nil
            THEN Step(c.s, c.err, <<"GetGroup">> \o c.ops)
            ELSE Step(f.s, f.err, <<"GetGroup">> \o c.ops \o p.ops \o f.ops)

----------------------------------------------------------------------------
\* RegisterEvent (events.go 88-156).

\* The check of events.go 98 left out.
BoundToApplication_Any(instance, appID) ==
    TRUE

\* events.go 98
BoundToApplication(instance, appID) ==
    instance.Application.ApplicationID = appID

\* The check of events.go 101 left out.
HasUpdateInProgress_Always(instance) ==
    TRUE

\* The check of events.go 101 passed by an instance in Error too.
HasUpdateInProgress_OrError(instance) ==
    \/ instance.Application.UpdateInProgress
    \/ instance.Application.Status = InstanceStatusError

\* events.go 101
HasUpdateInProgress(instance) ==
    instance.Application.UpdateInProgress

\* The sentinel version "0.0.0.0" of events.go 110 left out.
IsFlatcarIgnored_EmptyOnly(appID, etype, eresult, previousVersion) ==
    /\ appID = flatcarAppID
    /\ etype = EventUpdateComplete
    /\ eresult = ResultSuccessReboot
    /\ previousVersion = ""

\* events.go 109-110: the Flatcar updater's completion of an update that
\* did not start from a previous version.
IsFlatcarIgnored(appID, etype, eresult, previousVersion) ==
    /\ appID = flatcarAppID
    /\ etype = EventUpdateComplete
    /\ eresult = ResultSuccessReboot
    /\ (previousVersion = "" \/ previousVersion = "0.0.0.0")

\* events.go 117-120: the status is reset, and the error of the write logged.
IgnoreFlatcarEvent(s, instance, F) ==
    LET w == updateInstanceObjStatus(s, instance.ID, InstanceStatusUndefined, F)
    IN Step(w.s, ErrFlatcarEventIgnored, w.ops)

\* The error of the consequences returned instead of logged.
RegisteredResult_Propagated(err) == err

\* events.go 150-155: the error of the consequences is logged, not returned.
RegisteredResult(err) == nil

\* events.go 137-155: the insert and what follows it.
RecordEvent(s, instance, eventTypeID, instanceID, appID, groupID, etype, eresult, previousVersion, errorCode, F) ==
    LET ins == InsertEvent(s, eventTypeID, instanceID, appID, previousVersion,
                           errorCode, F)
        c == triggerEventConsequences(ins.s, instanceID, appID, groupID,
                                      instance.Application.LastUpdateVersion,
                                      etype, eresult, F)
    IN IF ins.err # nil
       THEN Step(s, ErrEventRegistrationFailed, ins.ops)
       ELSE Step(c.s, RegisteredResult(c.err), ins.ops \o c.ops)

RegisterEvent(s, instanceID, appID, groupID, etype, eresult, previousVersion, errorCode, F) ==
    LET v == validateApplicationAndGroup(appID, groupID)
        instance == GetInstance(s, instanceID, v.appID)
        eventTypeID == EventTypeID(etype, eresult)
    IN IF v.err # nil
       THEN Step(s, v.err, <<>>)
       ELSE IF instance.err # nil
       THEN Step(s, ErrInvalidInstance, <<>>)
       ELSE IF ~BoundToApplication(instance, v.appID)
       THEN Step(s, ErrInvalidApplicationOrGroup, <<>>)
       ELSE IF ~HasUpdateInProgress(instance)
       THEN Step(s, ErrNoUpdateInProgress, <<>>)
       ELSE IF IsFlatcarIgnored(v.appID, etype, eresult, previousVersion)
       THEN IgnoreFlatcarEvent(s, instance, F)
       ELSE IF eventTypeID = 0
       THEN Step(s, ErrInvalidEventTypeOrResult, <<>>)
       ELSE RecordEvent(s, instance, eventTypeID, instanceID, v.appID, v.groupID,
                        etype, eresult, previousVersion, errorCode, F)

----------------------------------------------------------------------------
\* GetEvent (events.go 236-254).

\* The rows created before the timestamp, but not at it.
EventRows_Before(s, instanceID, appID, timestamp) ==
    {k \in 1..Len(s.events) :
        /\ s.events[k].instance_id = instanceID
        /\ s.events[k].application_id = appID
        /\ s.events[k].created_ts < timestamp}

\* The rows the query's WHERE clauses keep.
EventRows(s, instanceID, appID, timestamp) ==
    {k \in 1..Len(s.events) :
        /\ s.events[k].instance_id = instanceID
        /\ s.events[k].application_id = appID
        /\ s.events[k].created_ts <= timestamp}

\* ORDER BY created_ts DESC LIMIT 1: a row with the latest created_ts; which
\* one of several rows with the same created_ts is not determined.
LatestRows(s, instanceID, appID, timestamp) ==
    {k \in EventRows(s, instanceID, appID, timestamp) :
        \A j \in EventRows(s, instanceID, appID, timestamp) :
            s.events[j].created_ts <= s.events[k].created_ts}

\* The results GetEvent may return: the error code of a latest row, or the
\* empty valid string and the error of Scan when no row matches.
GetEvent(s, instanceID, appID, timestamp) ==
    IF EventRows(s, instanceID, appID, timestamp) = {}
    THEN {[String |-> "", Valid |-> TRUE, err |-> ErrStore]}
    ELSE {[String |-> s.events[k].error_code, Valid |-> TRUE, err |-> nil] :
             k \in LatestRows(s, instanceID, appID, timestamp)}

----------------------------------------------------------------------------
\* The calls an environment makes.

InstanceIDs == Instances \cup {"ix"}
AppIDs == Apps
GroupIDs == Groups
\* 2 is an event type of the protocol that Nebraska does not implement.
EventTypes == {EventUpdateComplete, EventUpdateDownloadStarted,
               EventUpdateDownloadFinished, EventUpdateInstalled, 2}
EventResults == {ResultFailed, ResultSuccess, ResultSuccessReboot}
PreviousVersions == {"", "0.0.0.0", "1.0.0"}
ErrorCodes == {"", "7"}

\* What may fail during one call: nothing, one operation, every operation
\* after the insert, or every operation.
NoFault == {}
FaultSets == {NoFault} \cup {{op} : op \in StoreOps}
                 \cup {StoreOps \ {"insert"}, StoreOps}

\* The faults that can matter to a call: none when it issues no operation.
FaultsFor(FS, s, i, a, g, t, r, pv, ec) ==
    IF RegisterEvent(s, i, a, g, t, r, pv, ec, NoFault).ops = <<>>
    THEN {NoFault} ELSE FS

NoResult == [String |-> "", Valid |-> FALSE, err |-> nil]

\* The statistics before any was read, and the call of an instance that
\* makes none.
NoStats == [err |-> nil, TotalInstances |-> 0,
            UpdatesToCurrentVersionAttempted |-> 0,
            UpdatesToCurrentVersionSucceeded |-> 0]
NoCall == [groupID |-> "", result |-> ResultFailed, lastUpdateVersion |-> "",
           updatesStats |-> NoStats]

TypeOK ==
    /\ status \in [Instances -> Statuses]
    /\ updateInProgress \in [Instances -> BOOLEAN]
    /\ rolloutInProgress \in [Groups -> BOOLEAN]
    /\ updatesEnabled \in [Groups -> BOOLEAN]
    /\ now \in 0..MaxTime

\* Every instance has been granted the update to its group's version and
\* has an update in progress; every group's rollout is in progress.
Init ==
    /\ status = [i \in Instances |-> InstanceStatusUpdateGranted]
    /\ updateInProgress = [i \in Instances |-> TRUE]
    /\ LastUpdateVersion = [i \in Instances |-> GroupVersion(InstanceGroup(i))]
    /\ rolloutInProgress = [g \in Groups |-> TRUE]
    /\ updatesEnabled = [g \in Groups |-> TRUE]
    /\ events = <<>>
    /\ activity = <<>>
    /\ now = 0
    /\ disableUpdatesOnFailedRollout \in BOOLEAN
    /\ ret = nil
    /\ found = NoResult
    /\ pc = [i \in Instances |-> "idle"]
    /\ call = [i \in Instances |-> NoCall]

\* The store and the result after a call.
Commit(o) ==
    /\ status' = o.s.status
    /\ updateInProgress' = o.s.uip
    /\ rolloutInProgress' = o.s.rollout
    /\ updatesEnabled' = o.s.enabled
    /\ events' = o.s.events
    /\ activity' = o.s.activity
    /\ ret' = o.err
    /\ UNCHANGED <<LastUpdateVersion, now, disableUpdatesOnFailedRollout, found, pc, call>>

\* One call of RegisterEvent with arguments and faults of the given sets,
\* made while the event table holds fewer than max rows.
RegisterEventCall(max, I, A, G, T, R, PV, EC, FS) ==
    /\ Len(events) < max
    /\ \E i \in I, a \in A, g \in G, t \in T, r \in R, pv \in PV, ec \in EC :
         \E F \in FaultsFor(FS, Store, i, a, g, t, r, pv, ec) :
            Commit(RegisterEvent(Store, i, a, g, t, r, pv, ec, F))

\* One call of GetEvent.
GetEventCall(I, A) ==
    \E i \in I, a \in A, ts \in 0..MaxTime :
        \E o \in GetEvent(Store, i, a, ts) :
            /\ found' = o
            /\ UNCHANGED <<status, updateInProgress, LastUpdateVersion,
                           rolloutInProgress, updatesEnabled, events, activity,
                           now, disableUpdatesOnFailedRollout, ret, pc, call>>

\* Time passes.
Tick ==
    /\ now < MaxTime
    /\ now' = now + 1
    /\ UNCHANGED <<status, updateInProgress, LastUpdateVersion,
                   rolloutInProgress, updatesEnabled, events, activity,
                   disableUpdatesOnFailedRollout, ret, found, pc, call>>

\* Spec: a Flatcar instance, an instance of the other application and an
\* unknown instance report the end of an update, the start of a download or
\* an event Nebraska does not implement, with any result, for any
\* application and group, and the store may fail.
Callers == {"f1", "i1", "ix"}
CallVersions == {"", "1.0.0"}
CallErrorCodes == {"7"}
CallTypes == {EventUpdateComplete, EventUpdateDownloadStarted, 2}
RegisterAny ==
    RegisterEventCall(MaxEvents, Callers, AppIDs, GroupIDs, CallTypes,
                      EventResults, CallVersions, CallErrorCodes, FaultSets)

Next == RegisterAny

Spec == Init /\ [][Next]_vars

\* SpecRollout: the instances of one application report the end of their
\* update, or the start of a download, for any group of the application;
\* the store does not fail.
RolloutInstances == {"i1", "i2", "i3"}
RolloutGroups == {"g1", "g2", "g3"}
RegisterRollout ==
    RegisterEventCall(MaxRolloutEvents, RolloutInstances, {otherAppID},
                      RolloutGroups,
                      {EventUpdateComplete, EventUpdateDownloadStarted},
                      {ResultFailed, ResultSuccess}, {"1.0.0"}, {""}, {NoFault})

NextRollout == RegisterRollout

SpecRollout == Init /\ [][NextRollout]_vars

\* SpecLog: two instances report the start of a download with one of two
\* error codes, time passes, and the event log is queried.
LogInstances == {"i1", "i2"}
RegisterLog ==
    RegisterEventCall(MaxLogEvents, LogInstances, {otherAppID}, {"g1"},
                      {EventUpdateDownloadStarted}, {ResultSuccess}, {"1.0.0"},
                      ErrorCodes, {NoFault})

GetEventLog == GetEventCall(LogInstances, {otherAppID})

NextLog == RegisterLog \/ GetEventLog \/ Tick

SpecLog == Init /\ [][NextLog]_vars

\* SpecCycle: the two instances of g1 report every step of an update, with
\* success or failure, for their own group.
CycleInstances == {"i1", "i2"}
RegisterCycle ==
    RegisterEventCall(MaxCycleEvents, CycleInstances, {otherAppID}, {"g1"},
                      {EventUpdateComplete, EventUpdateDownloadStarted,
                       EventUpdateDownloadFinished, EventUpdateInstalled},
                      {ResultFailed, ResultSuccess}, {"1.0.0"}, {""}, {NoFault})

NextCycle == RegisterCycle

SpecCycle == Init /\ [][NextCycle]_vars

----------------------------------------------------------------------------
\* Concurrent calls. RegisterEvent runs in no transaction and takes no lock:
\* each store operation of a call is atomic, and the operations of calls of
\* several instances interleave. Every instance reports the end of its
\* update once (EventUpdateComplete, with success or failure); i1 and i2
\* name their group g1, i3 names its group g2 or g1.

ConcurrentInstances == {"i1", "i2", "i3"}
NamedGroups(p) == IF p = "i3" THEN {"g1", "g2"} ELSE {InstanceGroup(p)}

\* The store after a step of a call.
Write(s) ==
    /\ status' = s.status
    /\ updateInProgress' = s.uip
    /\ rolloutInProgress' = s.rollout
    /\ updatesEnabled' = s.enabled
    /\ events' = s.events
    /\ activity' = s.activity
    /\ UNCHANGED <<LastUpdateVersion, now, disableUpdatesOnFailedRollout, found>>

Goto(p, label) == pc' = [pc EXCEPT ![p] = label]

\* events.go 88-135: the checks of a call, which end it with the error of
\* the first that fails. The instances that call are not Flatcar's, so the
\* rule of lines 109-122 does not apply and no check writes.
Rejection(s, instanceID, appID, groupID, etype, eresult) ==
    LET v == validateApplicationAndGroup(appID, groupID)
        instance == GetInstance(s, instanceID, v.appID)
    IN IF v.err # nil THEN v.err
       ELSE IF instance.err # nil THEN ErrInvalidInstance
       ELSE IF ~BoundToApplication(instance, v.appID) THEN ErrInvalidApplicationOrGroup
       ELSE IF ~HasUpdateInProgress(instance) THEN ErrNoUpdateInProgress
       ELSE IF EventTypeID(etype, eresult) = 0 THEN ErrInvalidEventTypeOrResult
       ELSE nil

Validate(p) ==
    /\ pc[p] = "idle"
    /\ \E g \in NamedGroups(p), r \in {ResultSuccess, ResultFailed} :
          LET err == Rejection(Store, p, InstanceApp(p), g, EventUpdateComplete, r)
              instance == GetInstance(Store, p, InstanceApp(p))
          IN IF err # nil
             THEN /\ ret' = err
                  /\ Goto(p, "done")
                  /\ UNCHANGED call
             ELSE /\ call' = [call EXCEPT ![p] =
                                [groupID |-> g, result |-> r,
                                 lastUpdateVersion |->
                                     instance.Application.LastUpdateVersion,
                                 updatesStats |-> NoStats]]
                  /\ Goto(p, "insert")
                  /\ UNCHANGED ret
    /\ Write(Store)

\* events.go 137-148
Insert(p) ==
    /\ pc[p] = "insert"
    /\ Write(InsertEvent(Store, EventTypeID(EventUpdateComplete, call[p].result), p,
                         InstanceApp(p), "1.0.0", "", NoFault).s)
    /\ Goto(p, "GetGroup")
    /\ UNCHANGED <<call, ret>>

\* events.go 162-169 and 206: the group is read and the branch chosen.
LookupGroup(p) ==
    /\ pc[p] = "GetGroup"
    /\ GetGroup(Store, call[p].groupID, NoFault).err = nil
    /\ Goto(p, IF IsUpdateComplete(InstanceApp(p), EventUpdateComplete, call[p].result)
               THEN "complete" ELSE "failed")
    /\ Write(Store)
    /\ UNCHANGED <<call, ret>>

\* events.go 170
SetComplete(p) ==
    /\ pc[p] = "complete"
    /\ Write(updateInstanceStatus(Store, p, InstanceApp(p), InstanceStatusComplete,
                                  NoFault).s)
    /\ Goto(p, "stats")
    /\ UNCHANGED <<call, ret>>

\* events.go 174 and 215: the statistics are read into the call's local.
ReadStats(p) ==
    /\ pc[p] \in {"stats", "haltStats"}
    /\ call' = [call EXCEPT ![p].updatesStats =
                   getGroupUpdatesStats(Store, GetGroup(Store, call[p].groupID, NoFault),
                                        NoFault)]
    /\ Goto(p, IF pc[p] = "stats" THEN "converged" ELSE "halt")
    /\ Write(Store)
    /\ UNCHANGED ret

\* events.go 178-179
ClearRollout(p) ==
    /\ pc[p] = "converged"
    /\ IF RolloutConverged(call[p].updatesStats)
       THEN /\ Write(setGroupRolloutInProgress(Store, call[p].groupID, FALSE, NoFault).s)
            /\ Goto(p, "finished")
       ELSE /\ Write(Store)
            /\ Goto(p, "return")
    /\ UNCHANGED <<call, ret>>

\* events.go 182
AppendFinished(p) ==
    /\ pc[p] = "finished"
    /\ Write(newGroupActivityEntry(Store, activityRolloutFinished, activitySuccess,
                                   call[p].lastUpdateVersion, InstanceApp(p),
                                   call[p].groupID, NoFault).s)
    /\ Goto(p, "return")
    /\ UNCHANGED <<call, ret>>

\* events.go 207
SetError(p) ==
    /\ pc[p] = "failed"
    /\ Write(updateInstanceStatus(Store, p, InstanceApp(p), InstanceStatusError,
                                  NoFault).s)
    /\ Goto(p, "failedEntry")
    /\ UNCHANGED <<call, ret>>

\* events.go 210-214
AppendInstanceFailed(p) ==
    /\ pc[p] = "failedEntry"
    /\ Write(newInstanceActivityEntry(Store, activityInstanceUpdateFailed,
                                      activityError, call[p].lastUpdateVersion,
                                      InstanceApp(p), call[p].groupID, p, NoFault).s)
    /\ Goto(p, IF HaltOnFailure(Store) THEN "haltStats" ELSE "return")
    /\ UNCHANGED <<call, ret>>

\* events.go 219-220
DisableUpdates(p) ==
    /\ pc[p] = "halt"
    /\ IF FirstAttemptFailed(call[p].updatesStats)
       THEN /\ Write(disableUpdates(Store, call[p].groupID, NoFault).s)
            /\ Goto(p, "haltRollout")
       ELSE /\ Write(Store)
            /\ Goto(p, "return")
    /\ UNCHANGED <<call, ret>>

\* events.go 223
HaltRollout(p) ==
    /\ pc[p] = "haltRollout"
    /\ Write(setGroupRolloutInProgress(Store, call[p].groupID, FALSE, NoFault).s)
    /\ Goto(p, "haltEntry")
    /\ UNCHANGED <<call, ret>>

\* events.go 226
AppendFailed(p) ==
    /\ pc[p] = "haltEntry"
    /\ Write(newGroupActivityEntry(Store, activityRolloutFailed, activityError,
                                   call[p].lastUpdateVersion, InstanceApp(p),
                                   call[p].groupID, NoFault).s)
    /\ Goto(p, "return")
    /\ UNCHANGED <<call, ret>>

\* events.go 233 and 155
Return(p) ==
    /\ pc[p] = "return"
    /\ ret' = RegisteredResult(nil)
    /\ Goto(p, "done")
    /\ Write(Store)
    /\ UNCHANGED call

\* The steps of a call once its checks have passed.
Run(p) ==
    \/ Insert(p) \/ LookupGroup(p) \/ SetComplete(p) \/ ReadStats(p)
    \/ ClearRollout(p) \/ AppendFinished(p) \/ SetError(p)
    \/ AppendInstanceFailed(p) \/ DisableUpdates(p) \/ HaltRollout(p)
    \/ AppendFailed(p) \/ Return(p)

NextConcurrent == \E p \in ConcurrentInstances : Validate(p) \/ Run(p)

\* A call that has passed its checks runs to its end: the handler of a
\* request is sequential code that neither waits nor loops.
SpecConcurrent ==
    /\ Init
    /\ [][NextConcurrent]_vars
    /\ \A p \in ConcurrentInstances : WF_vars(Run(p))

----------------------------------------------------------------------------
\* What the claims are stated in.

\* The groups of an application: with one of them the application and group
\* of a call are consistent.
GroupsOf(appID) == {g \in Groups : GroupApp(g) = appID}

\* The number of activity entries of a class for a group.
Entries(class, g) ==
    Cardinality({k \in 1..Len(activity) :
                    activity[k].class = class /\ activity[k].groupID = g})

\* A call left the store as it was and issued no store operation.
Untouched(o) == o.s = Store /\ o.ops = <<>>

\* A call left the groups' flags and the activity log as they were.
GroupsUntouched(o) ==
    /\ o.s.rollout = rolloutInProgress
    /\ o.s.enabled = updatesEnabled
    /\ o.s.activity = activity

----------------------------------------------------------------------------
\* C1: for an instance the store knows, bound to the application of the
\* call, with no update in progress, RegisterEvent returns
\* ErrNoUpdateInProgress whatever the event type, result, previous version
\* and error code are, and changes nothing: no event, no status, no group
\* flag, no activity entry (no store operation is even issued).
C1_NoUpdateInProgress ==
    \A i \in Instances :
        ~updateInProgress[i] =>
            \A g \in GroupsOf(InstanceApp(i)), t \in EventTypes, r \in EventResults,
               pv \in PreviousVersions, ec \in ErrorCodes, F \in {NoFault, StoreOps} :
                LET o == RegisterEvent(Store, i, InstanceApp(i), g, t, r, pv, ec, F)
                IN o.err = ErrNoUpdateInProgress /\ Untouched(o)

\* A call has just been rejected for an instance whose update had ended
\* with a recorded event.
C1_Witness ==
    /\ ret = ErrNoUpdateInProgress
    /\ \E i \in Instances : ~updateInProgress[i] /\ status[i] = InstanceStatusComplete
    /\ Len(events) = 1

----------------------------------------------------------------------------
\* C2: for an instance of the Flatcar application with an update in
\* progress, RegisterEvent of UpdateComplete/SuccessReboot with previous
\* version "" or "0.0.0.0" returns ErrFlatcarEventIgnored, also when the
\* status write fails; the status becomes Undefined whatever it was (it
\* stays as it was when the write fails), no event is recorded, no group
\* flag changes and no activity entry is appended.
C2_FlatcarEventIgnored ==
    \A i \in Instances :
        (InstanceApp(i) = flatcarAppID /\ updateInProgress[i]) =>
            \A g \in GroupsOf(flatcarAppID), pv \in {"", "0.0.0.0"},
               ec \in ErrorCodes, F \in FaultSets :
                LET o == RegisterEvent(Store, i, flatcarAppID, g, EventUpdateComplete,
                                       ResultSuccessReboot, pv, ec, F)
                IN /\ o.err = ErrFlatcarEventIgnored
                   /\ o.s.status = IF "updateInstanceStatus" \in F
                                   THEN status
                                   ELSE [status EXCEPT ![i] = InstanceStatusUndefined]
                   /\ o.s.events = events
                   /\ GroupsUntouched(o)

\* The Flatcar instance had recorded an event, its completion was then
\* ignored and its status reset.
C2_Witness ==
    /\ ret = ErrFlatcarEventIgnored
    /\ status["f1"] = InstanceStatusUndefined
    /\ Len(events) = 1
    /\ events[1].instance_id = "f1"
    /\ activity = <<>>
    /\ \A g \in Groups : rolloutInProgress[g] /\ updatesEnabled[g]

----------------------------------------------------------------------------
\* C5: for a known instance with an update in progress and a consistent
\* application and group, an event whose (type, result) pair is not a row of
\* the event_type table (and so is not the ignored Flatcar completion) is
\* rejected with ErrInvalidEventTypeOrResult before anything is written: no
\* event, no status, no group flag, no activity entry.
Supported(t, r) == \E k \in 1..Len(EventTypeTable) : EventTypeTable[k] = <<t, r>>

C5_InvalidEventTypeOrResult ==
    \A i \in Instances :
        updateInProgress[i] =>
            \A g \in GroupsOf(InstanceApp(i)), t \in EventTypes, r \in EventResults :
                ~Supported(t, r) =>
                    \A pv \in PreviousVersions, ec \in ErrorCodes, F \in {NoFault, StoreOps} :
                        LET o == RegisterEvent(Store, i, InstanceApp(i), g, t, r, pv, ec, F)
                        IN o.err = ErrInvalidEventTypeOrResult /\ Untouched(o)

\* An unsupported event has just been rejected for an instance whose update
\* is still in progress after an earlier event.
C5_Witness ==
    /\ ret = ErrInvalidEventTypeOrResult
    /\ Len(events) = 1
    /\ updateInProgress[events[1].instance_id]

----------------------------------------------------------------------------
\* C6: a call of RegisterEvent that inserts the event returns nil, whatever
\* fails after the insert (the group lookup, the statistics, the status
\* write, the flag writes, the activity entries).
C6_SuccessAfterInsert ==
    [][Len(events') = Len(events) + 1 => ret' = nil]_vars

\* i1's start of download was recorded and reported as registered, though
\* its status was not written.
C6_Witness ==
    /\ ret = nil
    /\ Len(events) = 1
    /\ events[1].instance_id = "i1"
    /\ events[1].event_type_id = EventTypeID(EventUpdateDownloadStarted, ResultSuccess)
    /\ status["i1"] = InstanceStatusUpdateGranted

----------------------------------------------------------------------------
\* C8: the status the transition table gives an event, or "" where the
\* table has no row (the plain success of a Flatcar instance's completion).
TableStatus(appID, t, r) ==
    CASE r = ResultFailed -> InstanceStatusError
      [] t = EventUpdateDownloadStarted /\ r = ResultSuccess -> InstanceStatusDownloading
      [] t = EventUpdateDownloadFinished /\ r = ResultSuccess -> InstanceStatusDownloaded
      [] t = EventUpdateInstalled /\ r = ResultSuccess -> InstanceStatusInstalled
      [] t = EventUpdateComplete /\ r = ResultSuccessReboot -> InstanceStatusComplete
      [] t = EventUpdateComplete /\ r = ResultSuccess /\ appID # flatcarAppID ->
             InstanceStatusComplete
      [] OTHER -> ""

\* How often an operation was issued during a call.
Issued(o, op) == Cardinality({k \in 1..Len(o.ops) : o.ops[k] = op})

\* The faults that leave the insert, the group lookup and the status write
\* alone: none, or every other operation.
OtherFaults == {NoFault, StoreOps \ {"insert", "GetGroup", "updateInstanceStatus"}}

\* C8: for every accepted event whose group lookup and status write do not
\* fail, the reporting instance's status after RegisterEvent is the one the
\* transition table gives, whatever its status was: DownloadStarted/Success
\* Downloading, DownloadFinished/Success Downloaded, Installed/Success
\* Installed, UpdateComplete with an acceptable success Complete, any type
\* with Failed Error. At most one status write is issued, and no other
\* instance's status changes.
C8_TransitionTable ==
    \A i \in Instances :
        updateInProgress[i] =>
            \A g \in GroupsOf(InstanceApp(i)), t \in EventTypes, r \in EventResults,
               F \in OtherFaults :
                LET o == RegisterEvent(Store, i, InstanceApp(i), g, t, r, "1.0.0", "", F)
                    new == TableStatus(InstanceApp(i), t, r)
                IN o.err = nil =>
                       /\ new # "" => o.s.status[i] = new
                       /\ \A j \in Instances \ {i} : o.s.status[j] = status[j]
                       /\ Issued(o, "updateInstanceStatus") <= 1

\* i1 was Downloading and its completion made it Complete.
C8_Witness ==
    /\ ret = nil
    /\ Len(events) = 2
    /\ events[1].instance_id = "i1"
    /\ events[1].event_type_id = EventTypeID(EventUpdateDownloadStarted, ResultSuccess)
    /\ events[2].instance_id = "i1"
    /\ events[2].event_type_id = EventTypeID(EventUpdateComplete, ResultSuccess)
    /\ status["i1"] = InstanceStatusComplete

----------------------------------------------------------------------------
\* What C9 says of every application: the completion of an instance with
\* ResultSuccessReboot (that is not the ignored Flatcar completion), and
\* for another application than Flatcar with ResultSuccess too, sets the
\* status Complete and reads the statistics of the convergence check.
CompletionCounts(i, g, pv, ec) ==
    \A r \in {ResultSuccess, ResultSuccessReboot} :
        (/\ InstanceApp(i) = flatcarAppID => r = ResultSuccessReboot
         /\ ~(InstanceApp(i) = flatcarAppID /\ pv \in {"", "0.0.0.0"})) =>
            LET o == RegisterEvent(Store, i, InstanceApp(i), g, EventUpdateComplete,
                                   r, pv, ec, NoFault)
            IN /\ o.err = nil
               /\ o.s.status[i] = InstanceStatusComplete
               /\ Issued(o, "getGroupUpdatesStats") = 1

\* What holds of a Flatcar instance's completion with plain ResultSuccess:
\* it has no consequence. The status and the update in progress stay, no
\* group flag changes, no activity entry is appended, and neither a status
\* write nor the statistics are issued.
PlainSuccessWithoutConsequence(o) ==
    /\ o.s.status = status
    /\ o.s.uip = updateInProgress
    /\ GroupsUntouched(o)
    /\ Issued(o, "updateInstanceStatus") = 0
    /\ Issued(o, "getGroupUpdatesStats") = 0

\* C9 as amended: for a Flatcar instance, UpdateComplete with plain
\* ResultSuccess is not rejected: the event is recorded and RegisterEvent
\* returns nil (ErrEventRegistrationFailed when the insert fails). But it
\* has no consequence: it never makes the instance Complete and never
\* reaches the convergence check; only ResultSuccessReboot does. For every
\* other application both results set Complete and reach the check.
C9_FlatcarPlainSuccessRecorded ==
    \A i \in Instances :
        updateInProgress[i] =>
            \A g \in GroupsOf(InstanceApp(i)), pv \in PreviousVersions,
               ec \in CallErrorCodes :
                /\ CompletionCounts(i, g, pv, ec)
                /\ InstanceApp(i) = flatcarAppID =>
                       \A F \in FaultSets :
                           LET o == RegisterEvent(Store, i, flatcarAppID, g,
                                                  EventUpdateComplete, ResultSuccess,
                                                  pv, ec, F)
                           IN /\ PlainSuccessWithoutConsequence(o)
                              /\ "insert" \notin F =>
                                     /\ o.err = nil
                                     /\ Len(o.s.events) = Len(events) + 1
                              /\ "insert" \in F =>
                                     /\ o.err = ErrEventRegistrationFailed
                                     /\ o.s.events = events

\* C9 as stated: for a Flatcar instance, UpdateComplete with plain
\* ResultSuccess is rejected (an error is returned and no event recorded)
\* and has no consequence; for every other application both results set
\* Complete and reach the convergence check.
C9_FlatcarPlainSuccessRejected ==
    \A i \in Instances :
        updateInProgress[i] =>
            \A g \in GroupsOf(InstanceApp(i)), pv \in PreviousVersions,
               ec \in CallErrorCodes :
                /\ CompletionCounts(i, g, pv, ec)
                /\ InstanceApp(i) = flatcarAppID =>
                       \A F \in FaultSets :
                           LET o == RegisterEvent(Store, i, flatcarAppID, g,
                                                  EventUpdateComplete, ResultSuccess,
                                                  pv, ec, F)
                           IN /\ PlainSuccessWithoutConsequence(o)
                              /\ o.err # nil
                              /\ o.s.events = events

\* The Flatcar instance's completion with plain ResultSuccess was recorded
\* and reported as registered, and the instance and its group are as before.
C9_Witness ==
    /\ ret = nil
    /\ Len(events) = 1
    /\ events[1].instance_id = "f1"
    /\ events[1].event_type_id = EventTypeID(EventUpdateComplete, ResultSuccess)
    /\ status["f1"] = InstanceStatusUpdateGranted
    /\ updateInProgress["f1"]
    /\ rolloutInProgress["gF"]
    /\ activity = <<>>

----------------------------------------------------------------------------
\* C10: an event submitted with a group of the instance's application that
\* is not the instance's group is rejected, and changes neither the flags
\* nor the activity of that group.
C10_GroupBindingChecked ==
    \A i \in Instances :
        updateInProgress[i] =>
            \A g \in GroupsOf(InstanceApp(i)) \ {InstanceGroup(i)},
               t \in EventTypes, r \in EventResults :
                LET o == RegisterEvent(Store, i, InstanceApp(i), g, t, r, "1.0.0", "",
                                       NoFault)
                IN /\ o.err # nil
                   /\ GroupsUntouched(o)

----------------------------------------------------------------------------
\* The instance has reported the end of its update with a result that
\* completes it.
ReportedComplete(i) ==
    \E k \in 1..Len(events) :
        /\ events[k].instance_id = i
        /\ events[k].event_type_id \in
               {EventTypeID(EventUpdateComplete, ResultSuccess),
                EventTypeID(EventUpdateComplete, ResultSuccessReboot)}

\* C3: in a run of RegisterEvent calls, a group of one or more instances
\* never has more than one "rollout finished" entry, and once all its
\* instances have reported UpdateComplete with a result that completes the
\* update, it has exactly one and its rollout is no longer in progress.
C3_RolloutFinishedOnce ==
    \A g \in Groups :
        Members(g) # {} =>
            /\ Entries(activityRolloutFinished, g) <= 1
            /\ (\A i \in Members(g) : ReportedComplete(i)) =>
                   /\ Entries(activityRolloutFinished, g) = 1
                   /\ ~rolloutInProgress[g]

----------------------------------------------------------------------------
\* C4: with the halt on a failed rollout enabled, a group never has more
\* than one "rollout failed" entry, and a group that has one has its
\* updates disabled and its rollout no longer in progress.
C4_RolloutFailedOnce ==
    disableUpdatesOnFailedRollout =>
        \A g \in Groups :
            /\ Entries(activityRolloutFailed, g) <= 1
            /\ Entries(activityRolloutFailed, g) = 1 =>
                   /\ ~updatesEnabled[g]
                   /\ ~rolloutInProgress[g]

----------------------------------------------------------------------------
\* What GetEvent returns for an error code it has read.
Read(errorCode) == [String |-> errorCode, Valid |-> TRUE, err |-> nil]

\* No other event of the same instance and application was created from
\* the creation of row k up to the timestamp.
Latest(s, k, timestamp) ==
    \A j \in 1..Len(s.events) \ {k} :
        ~ /\ s.events[j].instance_id = s.events[k].instance_id
          /\ s.events[j].application_id = s.events[k].application_id
          /\ s.events[k].created_ts <= s.events[j].created_ts
          /\ s.events[j].created_ts <= timestamp

\* RegisterEvent accepts the start of a download of instance i with error
\* code c and records it with that code as the last row, created now.
Recorded(o, i, c) ==
    /\ o.err = nil
    /\ Len(o.s.events) = Len(events) + 1
    /\ o.s.events[Len(o.s.events)].instance_id = i
    /\ o.s.events[Len(o.s.events)].application_id = InstanceApp(i)
    /\ o.s.events[Len(o.s.events)].error_code = c
    /\ o.s.events[Len(o.s.events)].created_ts = now

\* C7 as amended: RegisterEvent records an accepted event with the error
\* code c it was given, and GetEvent for the event's instance and
\* application with a timestamp at or after the event's creation returns c
\* as long as no other event of that instance and application was created
\* from then up to the timestamp; further events created after the
\* timestamp do not change the answer.
C7_RoundTripOfLatest ==
    /\ \A i \in LogInstances, c \in ErrorCodes :
           updateInProgress[i] =>
               LET o == RegisterEvent(Store, i, InstanceApp(i), InstanceGroup(i),
                                      EventUpdateDownloadStarted, ResultSuccess,
                                      "1.0.0", c, NoFault)
               IN /\ Recorded(o, i, c)
                  /\ \A ts \in now..MaxTime :
                         Latest(o.s, Len(o.s.events), ts) =>
                             GetEvent(o.s, i, InstanceApp(i), ts) = {Read(c)}
    /\ \A k \in 1..Len(events), ts \in 0..MaxTime :
           (events[k].created_ts <= ts /\ Latest(Store, k, ts)) =>
               GetEvent(Store, events[k].instance_id, events[k].application_id, ts)
                   = {Read(events[k].error_code)}

\* C7 as stated: GetEvent for a recorded event's instance and application
\* with any timestamp at or after the event's creation returns the event's
\* error code, whatever further events of the instance were accepted.
C7_RoundTripAlways ==
    \A k \in 1..Len(events), ts \in 0..MaxTime :
        events[k].created_ts <= ts =>
            GetEvent(Store, events[k].instance_id, events[k].application_id, ts)
                = {Read(events[k].error_code)}

\* i1 reported error code 7 and later no error code; a query has returned
\* the 7 of the first event.
C7_Witness ==
    /\ Len(events) = 2
    /\ events[1].instance_id = "i1" /\ events[1].error_code = "7"
    /\ events[1].created_ts = 0
    /\ events[2].instance_id = "i1" /\ events[2].error_code = ""
    /\ events[2].created_ts = 1
    /\ found = Read("7")

----------------------------------------------------------------------------
\* The statistics of a group in the current store.
StatsNow(g) == getGroupUpdatesStats(Store, GetGroup(Store, g, NoFault), NoFault)

\* C11: a group is marked finished (its rollout no longer in progress, or
\* a "rollout finished" entry for it) only on statistics with
\* TotalInstances > 0 and UpdatesToCurrentVersionAttempted > 0: a group
\* with no instance or no attempt is never marked finished.
C11_ConvergenceGuarded ==
    \A g \in Groups :
        (StatsNow(g).TotalInstances = 0
            \/ StatsNow(g).UpdatesToCurrentVersionAttempted = 0) =>
            /\ rolloutInProgress[g]
            /\ Entries(activityRolloutFinished, g) = 0

----------------------------------------------------------------------------
\* The first of the four rejection reasons that applies to a call, in the
\* order of C12, or nil when none does.
FirstRejection(i, a, g) ==
    IF ~(a \in Apps /\ g \in Groups /\ GroupApp(g) = a)
    THEN ErrInvalidApplicationOrGroup
    ELSE IF i \notin Instances
    THEN ErrInvalidInstance
    ELSE IF InstanceApp(i) # a
    THEN ErrInvalidApplicationOrGroup
    ELSE IF ~updateInProgress[i]
    THEN ErrNoUpdateInProgress
    ELSE nil

\* What RegisterEvent returns once none of the four reasons applies.
LaterOutcome(a, t, r, pv, F) ==
    IF a = flatcarAppID /\ t = EventUpdateComplete /\ r = ResultSuccessReboot
         /\ pv \in {"", "0.0.0.0"}
    THEN ErrFlatcarEventIgnored
    ELSE IF ~Supported(t, r)
    THEN ErrInvalidEventTypeOrResult
    ELSE IF "insert" \in F
    THEN ErrEventRegistrationFailed
    ELSE nil

\* C12: RegisterEvent's rejections have a fixed precedence: an inconsistent
\* application/group pair gives ErrInvalidApplicationOrGroup whatever the
\* instance is; otherwise an unknown instance gives ErrInvalidInstance;
\* otherwise an instance of another application gives
\* ErrInvalidApplicationOrGroup; otherwise no update in progress gives
\* ErrNoUpdateInProgress, for a stale Flatcar reboot completion too, and
\* the store is then left as it was (the status is not reset). Only when
\* none applies are the Flatcar rule and the event type table considered.
C12_RejectionPrecedence ==
    \A i \in InstanceIDs, a \in AppIDs, g \in GroupIDs,
       t \in {EventUpdateComplete, 2}, r \in {ResultSuccess, ResultSuccessReboot},
       pv \in CallVersions, F \in {NoFault, StoreOps} :
        LET o == RegisterEvent(Store, i, a, g, t, r, pv, "", F)
        IN IF FirstRejection(i, a, g) # nil
           THEN o.err = FirstRejection(i, a, g) /\ Untouched(o)
           ELSE o.err = LaterOutcome(a, t, r, pv, F)

\* The Flatcar instance completed its update, and a later event of it was
\* rejected for having no update in progress: its status is still Complete.
C12_Witness ==
    /\ ret = ErrNoUpdateInProgress
    /\ Len(events) = 1
    /\ events[1].instance_id = "f1"
    /\ ~updateInProgress["f1"]
    /\ status["f1"] = InstanceStatusComplete

----------------------------------------------------------------------------
\* The position of a status in an update cycle.
Rank(st) ==
    CASE st = InstanceStatusDownloading -> 1
      [] st = InstanceStatusDownloaded -> 2
      [] st = InstanceStatusInstalled -> 3
      [] st = InstanceStatusComplete -> 4
      [] OTHER -> 0

\* C13: no event moves an instance's status back: every step leaves each
\* instance at its position in the cycle or moves it forward, or sets
\* Error, or is the Flatcar reset to Undefined.
C13_StatusMonotonic ==
    [][\A i \in Instances :
          \/ Rank(status'[i]) >= Rank(status[i])
          \/ status'[i] = InstanceStatusError
          \/ (InstanceApp(i) = flatcarAppID /\ status'[i] = InstanceStatusUndefined)]_vars

----------------------------------------------------------------------------
\* C14: when the instances i1 and i2 of g1 report their completion
\* concurrently (and no instance of another group has called), at most one
\* "rollout finished" entry is appended for g1.
C14_FinishedOnceConcurrently ==
    pc["i3"] = "idle" => Entries(activityRolloutFinished, "g1") <= 1

----------------------------------------------------------------------------
\* C18: once every instance of a group whose rollout is in progress has
\* had its UpdateComplete with success accepted, and no store operation
\* fails, the group's rollout is eventually not in progress and a "rollout
\* finished" entry exists for it, however the calls interleave.
C18_EventuallyFinished ==
    \A g \in {"g1", "g2"} :
        (rolloutInProgress[g] /\ \A i \in Members(g) : ReportedComplete(i))
            ~> (~rolloutInProgress[g] /\ Entries(activityRolloutFinished, g) >= 1)

----------------------------------------------------------------------------
\* Every b among the operations of a call comes after an a.
IssuedAfter(o, a, b) ==
    \A k \in 1..Len(o.ops) :
        o.ops[k] = b => \E j \in 1..(k - 1) : o.ops[j] = a

\* The statistics of a group once instance i has the status st and its
\* update is over.
StatsWith(i, st, g) ==
    getGroupUpdatesStats([Store EXCEPT !.status[i] = st, !.uip[i] = FALSE],
                         GetGroup(Store, g, NoFault), NoFault)

\* A call appended an entry of the class to the activity log.
Appended(o, class) ==
    /\ Len(o.s.activity) > Len(activity)
    /\ o.s.activity[Len(o.s.activity)].class = class

\* C15: in the success path and in the failure path the statistics are
\* read after the status write of the reporting instance has been issued,
\* and when the write succeeds the decision is the one of the statistics
\* that count the instance with its new status: the rollout is finished
\* exactly when they show convergence, and halted exactly when (the halt
\* being enabled) they show one attempt.
C15_StatsAfterStatusWrite ==
    \A i \in RolloutInstances :
        updateInProgress[i] =>
            \A g \in RolloutGroups, r \in {ResultSuccess, ResultFailed} :
                /\ \A F \in {NoFault, {"updateInstanceStatus"}} :
                       IssuedAfter(RegisterEvent(Store, i, otherAppID, g,
                                                 EventUpdateComplete, r, "1.0.0", "", F),
                                   "updateInstanceStatus", "getGroupUpdatesStats")
                /\ LET o == RegisterEvent(Store, i, otherAppID, g, EventUpdateComplete,
                                          r, "1.0.0", "", NoFault)
                   IN IF r = ResultSuccess
                      THEN /\ Issued(o, "getGroupUpdatesStats") = 1
                           /\ Appended(o, activityRolloutFinished)
                                <=> RolloutConverged(StatsWith(i, InstanceStatusComplete, g))
                      ELSE /\ Issued(o, "getGroupUpdatesStats")
                                = IF disableUpdatesOnFailedRollout THEN 1 ELSE 0
                           /\ Appended(o, activityRolloutFailed)
                                <=> /\ disableUpdatesOnFailedRollout
                                    /\ FirstAttemptFailed(StatsWith(i, InstanceStatusError, g))

\* The completion of the second instance of g1 finished the rollout: it was
\* counted in the statistics of its own call.
C15_Witness ==
    /\ Len(events) = 2
    /\ events[1].instance_id = "i1" /\ events[2].instance_id = "i2"
    /\ status["i1"] = InstanceStatusComplete
    /\ status["i2"] = InstanceStatusComplete
    /\ ~rolloutInProgress["g1"]
    /\ Entries(activityRolloutFinished, "g1") = 1

----------------------------------------------------------------------------
\* The entries of an activity log that are about a group, not an instance.
GroupActivity(a) == SelectSeq(a, LAMBDA e : e.instanceID = "")

\* A call left every group's flags and the group activity as they were.
GroupStateKept(o) ==
    /\ o.s.rollout = rolloutInProgress
    /\ o.s.enabled = updatesEnabled
    /\ GroupActivity(o.s.activity) = GroupActivity(activity)

\* The attempts in the statistics a Failed event of i for g reads: after
\* the status write, which has failed or not.
AttemptedRead(i, g, F) ==
    IF "updateInstanceStatus" \in F
    THEN StatsNow(g).UpdatesToCurrentVersionAttempted
    ELSE StatsWith(i, InstanceStatusError, g).UpdatesToCurrentVersionAttempted

\* C16: the groups' RolloutInProgress and updates-enabled flags and the
\* group activity are left as they were by every progress event
\* (DownloadStarted, DownloadFinished, Installed with Success), by every
\* Failed event when the halt is not configured, and by every Failed event
\* whose statistics show other than one attempt; and no call sets a
\* RolloutInProgress flag or re-enables updates.
C16_GroupStateFrame ==
    \A i \in Instances :
        updateInProgress[i] =>
            \A g \in GroupsOf(InstanceApp(i)), t \in EventTypes :
                /\ \A F \in FaultSets :
                       LET o == RegisterEvent(Store, i, InstanceApp(i), g, t,
                                              ResultSuccess, "1.0.0", "", F)
                       IN /\ t # EventUpdateComplete => GroupStateKept(o)
                          /\ \A h \in Groups :
                                 /\ o.s.rollout[h] => rolloutInProgress[h]
                                 /\ o.s.enabled[h] => updatesEnabled[h]
                /\ \A F \in {NoFault, {"updateInstanceStatus"}} :
                       LET o == RegisterEvent(Store, i, InstanceApp(i), g, t,
                                              ResultFailed, "1.0.0", "", F)
                       IN /\ (~disableUpdatesOnFailedRollout \/ AttemptedRead(i, g, F) # 1)
                                 => GroupStateKept(o)
                          /\ \A h \in Groups :
                                 /\ o.s.rollout[h] => rolloutInProgress[h]
                                 /\ o.s.enabled[h] => updatesEnabled[h]

\* With the halt not configured, i1 failed and its group is as it was.
C16_Witness ==
    /\ ~disableUpdatesOnFailedRollout
    /\ Len(events) = 1
    /\ status["i1"] = InstanceStatusError
    /\ Entries(activityInstanceUpdateFailed, "g1") = 1
    /\ rolloutInProgress["g1"] /\ updatesEnabled["g1"]
    /\ Entries(activityRolloutFailed, "g1") = 0

----------------------------------------------------------------------------
\* The operations a call issued after its insert.
Consequences(o) == SubSeq(o.ops, 2, Len(o.ops))

\* C17: the steps of the consequences are best-effort one by one. When the
\* status write fails the statistics are still read and the decision still
\* taken on them; when the write of RolloutInProgress or the disabling of
\* updates fails, the group activity entry that follows is still appended;
\* only a failed group lookup or a failed reading of the statistics stops
\* the rest.
C17_BestEffortSteps ==
    \A i \in {"f1", "i1"} :
        updateInProgress[i] =>
            LET g == InstanceGroup(i)
                Call(r, F) == RegisterEvent(Store, i, InstanceApp(i), g,
                                            EventUpdateComplete, r, "1.0.0", "", F)
                ok == Call(ResultSuccessReboot, NoFault)
                ko == Call(ResultFailed, NoFault)
            IN /\ \A F \in {{"updateInstanceStatus"}, {"setGroupRolloutInProgress"},
                            {"disableUpdates"}, {"newGroupActivityEntry"},
                            {"newInstanceActivityEntry"}} :
                      /\ Call(ResultSuccessReboot, F).err = nil
                      /\ Call(ResultFailed, F).err = nil
                      /\ Issued(Call(ResultSuccessReboot, F), "getGroupUpdatesStats") = 1
                      /\ Issued(Call(ResultFailed, F), "getGroupUpdatesStats")
                             = IF disableUpdatesOnFailedRollout THEN 1 ELSE 0
                      /\ Issued(Call(ResultFailed, F), "newInstanceActivityEntry") = 1
               /\ LET o == Call(ResultSuccessReboot, {"updateInstanceStatus"})
                  IN Appended(o, activityRolloutFinished)
                         <=> RolloutConverged(StatsNow(g))
               /\ LET o == Call(ResultSuccessReboot, {"setGroupRolloutInProgress"})
                  IN /\ Appended(o, activityRolloutFinished)
                            <=> Appended(ok, activityRolloutFinished)
                     /\ o.s.rollout = rolloutInProgress
               /\ LET o == Call(ResultFailed, {"disableUpdates"})
                  IN /\ Appended(o, activityRolloutFailed)
                            <=> Appended(ko, activityRolloutFailed)
                     /\ o.s.rollout = ko.s.rollout
                     /\ o.s.enabled = updatesEnabled
               /\ \A r \in {ResultSuccessReboot, ResultFailed} :
                      /\ Consequences(Call(r, {"GetGroup"})) = <<"GetGroup">>
                      /\ Call(r, {"GetGroup"}).s
                             = [Store EXCEPT !.events = Call(r, NoFault).s.events]
                      /\ LET o == Call(r, {"getGroupUpdatesStats"})
                         IN /\ GroupStateKept(o)
                            /\ Issued(o, "setGroupRolloutInProgress") = 0
                            /\ Issued(o, "disableUpdates") = 0
                            /\ Issued(o, "newGroupActivityEntry") = 0

\* The Flatcar instance completed its update; the write of RolloutInProgress
\* failed, and the "rollout finished" entry was appended all the same.
C17_Witness ==
    /\ ret = nil
    /\ Len(events) = 1
    /\ status["f1"] = InstanceStatusComplete
    /\ rolloutInProgress["gF"]
    /\ Entries(activityRolloutFinished, "gF") = 1

----------------------------------------------------------------------------
\* A second delivery left the statuses, the groups' flags and the activity
\* as the first delivery had left them.
SameConsequences(first, second) ==
    /\ second.s.status = first.s.status
    /\ second.s.rollout = first.s.rollout
    /\ second.s.enabled = first.s.enabled
    /\ second.s.activity = first.s.activity

\* The faults that leave the group lookup and the status write alone.
StatusWritten == {F \in FaultSets : "GetGroup" \notin F /\ "updateInstanceStatus" \notin F}

----------------------------------------------------------------------------
\* C20: the event table is append-only and follows the outcome of a call.
\* A call that returns nil appends exactly one row, with the instance,
\* the application, the previous version and the error code of the call
\* (and the id of its type and result); a call that returns an error,
\* whichever, appends none; and no call changes or removes a row.
C20_EventLogFollowsOutcome ==
    \A i \in Callers, a \in AppIDs, g \in {"gF", "g1"}, t \in CallTypes,
       r \in EventResults, pv \in CallVersions, F \in {NoFault, {"insert"}} :
        LET o == RegisterEvent(Store, i, a, g, t, r, pv, "7", F)
        IN IF o.err = nil
           THEN o.s.events = Append(events,
                    [event_type_id |-> EventTypeID(t, r), instance_id |-> i,
                     application_id |-> a, previous_version |-> pv,
                     error_code |-> "7", created_ts |-> now])
           ELSE /\ o.s.events = events
                /\ o.err \in {ErrInvalidApplicationOrGroup, ErrInvalidInstance,
                              ErrNoUpdateInProgress, ErrFlatcarEventIgnored,
                              ErrInvalidEventTypeOrResult, ErrEventRegistrationFailed}

\* One event was recorded, and a later call failed at its insert: the
\* table still holds the one row.
C20_Witness ==
    /\ ret = ErrEventRegistrationFailed
    /\ Len(events) = 1
    /\ events[1].error_code = "7"

====
